---- MODULE Spec2Model ----
(***************************************************************************)
(* Model of warehouse_wise_stock_balance_cluster.js: the report script is  *)
(* one assignment statement that builds an object literal and stores it in *)
(* the global map frappe.query_reports.  The literal calls two ambient     *)
(* functions while it is being built: __() for the labels and              *)
(* frappe.defaults.get_user_default() for the company filter's default.    *)
(***************************************************************************)
EXTENDS Integers, Sequences, FiniteSets, TLC

\* How many times the script is executed in one session.
MaxLoads == 2

ReportName == "Warehouse Wise Stock Balance Cluster"
OtherReports == {"Stock Balance"}

\* The value a JavaScript property read yields when the key is missing.
Undefined == "undefined"
Companies == {"IBSL", "Bioprime Agri"}
DefaultKeys == {"Company"}

\* Entries other report scripts put into frappe.query_reports.
OtherConfigs == {[filters |-> <<>>], [filters |-> <<>>, tree |-> FALSE]}
\* An entry left under this report's name before the script runs.
StaleConfig == [filters |-> <<>>, formatter |-> "custom"]

\* Translation dictionaries of the session (source text -> translated text).
NoMessages == [t \in {} |-> ""]
GermanMessages == [t \in {"Company", "Show Disabled Warehouses"} |->
                     IF t = "Company" THEN "Unternehmen"
                                      ELSE "Deaktivierte Lager anzeigen"]

VARIABLES query_reports, user_defaults, messages, load_log, rendered

vars == <<query_reports, user_defaults, messages, load_log, rendered>>

\* __(txt): the translation when the dictionary has one, else the text.
Translate(txt) == IF txt \in DOMAIN messages THEN messages[txt] ELSE txt

\* frappe.defaults.get_user_default(key): undefined when the key is unset.
get_user_default(key) ==
    IF key \in DOMAIN user_defaults THEN user_defaults[key] ELSE Undefined

CompanyFilter_WrongKey ==
    [fieldname |-> "company",
     label     |-> Translate("Company"),
     fieldtype |-> "Link",
     options   |-> "Company",
     reqd      |-> 1,
     default   |-> get_user_default("company")]

\* filters[0], lines 7-14.  The default is computed while the literal is
\* built, so the entry stores the value and not the call.
CompanyFilter ==
    [fieldname |-> "company",
     label     |-> Translate("Company"),
     fieldtype |-> "Link",
     options   |-> "Company",
     reqd      |-> 1,
     default   |-> get_user_default("Company")]

WarehouseFilter_DupName ==
    [fieldname |-> "company",
     label     |-> Translate("Show Disabled Warehouses"),
     fieldtype |-> "Check",
     default   |-> 0]

WarehouseFilter_WithOptions ==
    [fieldname |-> "show_disabled_warehouses",
     label     |-> Translate("Show Disabled Warehouses"),
     fieldtype |-> "Check",
     options   |-> "Warehouse",
     default   |-> 0]

WarehouseFilter_Reqd2 ==
    [fieldname |-> "show_disabled_warehouses",
     label     |-> Translate("Show Disabled Warehouses"),
     fieldtype |-> "Check",
     reqd      |-> 2,
     default   |-> 0]

\* filters[1], lines 15-21.  The literal has no "options" and no "reqd" key.
WarehouseFilter ==
    [fieldname |-> "show_disabled_warehouses",
     label     |-> Translate("Show Disabled Warehouses"),
     fieldtype |-> "Check",
     default   |-> 0]

ReportConfig_Swapped ==
    [filters       |-> <<WarehouseFilter, CompanyFilter>>,
     initial_depth |-> 3,
     tree          |-> TRUE,
     parent_field  |-> "parent_warehouse",
     name_field    |-> "warehouse"]

ReportConfig_NoParent ==
    [filters       |-> <<CompanyFilter, WarehouseFilter>>,
     initial_depth |-> 3,
     tree          |-> TRUE,
     parent_field  |-> "",
     name_field    |-> "warehouse"]

\* The object literal of lines 5-27, evaluated in the current state.
ReportConfig ==
    [filters       |-> <<CompanyFilter, WarehouseFilter>>,
     initial_depth |-> 3,
     tree          |-> TRUE,
     parent_field  |-> "parent_warehouse",
     name_field    |-> "warehouse"]

\* obj[key] = value on a JavaScript object.
Assign(obj, key, value) ==
    [k \in DOMAIN obj \cup {key} |-> IF k = key THEN value ELSE obj[k]]

Loads == Len(load_log)
Loaded == Loads > 0
Entry == query_reports[ReportName]

Init ==
    /\ query_reports \in {[n \in {} |-> StaleConfig],
                          [n \in {ReportName} |-> StaleConfig]}
    /\ user_defaults \in {[k \in {} |-> Undefined]}
                           \cup {[k \in DefaultKeys |-> c] : c \in Companies}
    /\ messages \in {NoMessages, GermanMessages}
    /\ load_log = <<>>
    /\ rendered = [n |-> 0, company_default |-> Undefined,
                   session_default |-> Undefined]

\* Object.assign(old, new): the fields of new, and those only old has.
Merge(old, new) ==
    [k \in DOMAIN old \cup DOMAIN new |-> IF k \in DOMAIN new THEN new[k] ELSE old[k]]

LoadModule_Merge ==
    /\ Len(load_log) < MaxLoads
    /\ query_reports' = Assign(query_reports, ReportName,
                               IF ReportName \in DOMAIN query_reports
                               THEN Merge(query_reports[ReportName], ReportConfig)
                               ELSE ReportConfig)
    /\ load_log' = Append(load_log, get_user_default("Company"))
    /\ UNCHANGED <<user_defaults, messages, rendered>>

\* A registration that pushes its filters onto those of the entry present.
LoadModule_Append ==
    /\ Len(load_log) < MaxLoads
    /\ query_reports' = Assign(query_reports, ReportName,
                               IF ReportName \in DOMAIN query_reports
                               THEN [ReportConfig EXCEPT !.filters =
                                       query_reports[ReportName].filters \o @]
                               ELSE ReportConfig)
    /\ load_log' = Append(load_log, get_user_default("Company"))
    /\ UNCHANGED <<user_defaults, messages, rendered>>

\* The script runs: frappe.query_reports[ReportName] = { ... }.
\* load_log records what get_user_default returned while the literal was built.
LoadModule ==
    /\ Loads < MaxLoads
    /\ query_reports' = Assign(query_reports, ReportName, ReportConfig)
    /\ load_log' = Append(load_log, get_user_default("Company"))
    /\ UNCHANGED <<user_defaults, messages, rendered>>

\* Another report's script runs and registers its own entry.
LoadOtherReport ==
    \E n \in OtherReports, cfg \in OtherConfigs :
        /\ query_reports' = Assign(query_reports, n, cfg)
        /\ UNCHANGED <<user_defaults, messages, load_log, rendered>>

\* Session event: the user's default Company is set to c.
SetUserDefault ==
    \E c \in Companies :
        /\ user_defaults' = Assign(user_defaults, "Company", c)
        /\ UNCHANGED <<query_reports, messages, load_log, rendered>>

\* Session event: the user's default Company is removed.
ClearUserDefault ==
    /\ "Company" \in DOMAIN user_defaults
    /\ user_defaults' = [k \in DOMAIN user_defaults \ {"Company"} |->
                            user_defaults[k]]
    /\ UNCHANGED <<query_reports, messages, load_log, rendered>>

\* The host renders the report: it reads the company filter's default from
\* the entry the script registered.  session_default is the user's default
\* Company at that moment.
Render ==
    /\ Loaded
    /\ rendered' = [n |-> Loads,
                    company_default |-> Entry.filters[1].default,
                    session_default |-> get_user_default("Company")]
    /\ UNCHANGED <<query_reports, user_defaults, messages, load_log>>

Next ==
    \/ LoadModule
    \/ LoadOtherReport
    \/ SetUserDefault
    \/ ClearUserDefault
    \/ Render

Spec == Init /\ [][Next]_vars

(***************************************************************************)
(* Properties                                                              *)
(***************************************************************************)

Has(obj, key) == key \in DOMAIN obj
Filters == Entry.filters
ConfigKeys == {"filters", "initial_depth", "tree", "parent_field", "name_field"}

\* C1 (as stated): after the module is loaded the entry has exactly two
\* filters, company (Link, options Company, reqd 1) and then
\* show_disabled_warehouses (Check, reqd 0, default 0).
C1_AsStated ==
    Loaded =>
        /\ Len(Filters) = 2
        /\ Filters[1].fieldname = "company"
        /\ Filters[1].fieldtype = "Link"
        /\ Has(Filters[1], "options") /\ Filters[1].options = "Company"
        /\ Has(Filters[1], "reqd") /\ Filters[1].reqd = 1
        /\ Filters[2].fieldname = "show_disabled_warehouses"
        /\ Filters[2].fieldtype = "Check"
        /\ Has(Filters[2], "reqd") /\ Filters[2].reqd = 0
        /\ Has(Filters[2], "default") /\ Filters[2].default = 0

\* C1 (amended): after the module is loaded the entry has exactly two
\* filters, company (Link, options Company, reqd 1) and then
\* show_disabled_warehouses (Check, default 0), which has no reqd attribute.
C1_FiltersShape ==
    Loaded =>
        /\ Len(Filters) = 2
        /\ Filters[1].fieldname = "company"
        /\ Filters[1].fieldtype = "Link"
        /\ Has(Filters[1], "options") /\ Filters[1].options = "Company"
        /\ Has(Filters[1], "reqd") /\ Filters[1].reqd = 1
        /\ Filters[2].fieldname = "show_disabled_warehouses"
        /\ Filters[2].fieldtype = "Check"
        /\ ~Has(Filters[2], "reqd")
        /\ Has(Filters[2], "default") /\ Filters[2].default = 0

C1_Witness ==
    /\ Loaded
    /\ Filters[2].fieldname = "show_disabled_warehouses"
    /\ rendered.n = 0

\* C2: after the module is loaded tree is true, initial_depth is 3,
\* parent_field is "parent_warehouse" and name_field is "warehouse"; so with
\* tree mode on both field names are present and non-empty and initial_depth
\* is an integer >= 0.
C2_TreeOptions ==
    Loaded =>
        /\ Entry.tree = TRUE
        /\ Entry.initial_depth = 3
        /\ Entry.parent_field = "parent_warehouse"
        /\ Entry.name_field = "warehouse"
        /\ Entry.tree =>
              /\ Has(Entry, "parent_field") /\ Entry.parent_field # ""
              /\ Has(Entry, "name_field") /\ Entry.name_field # ""
        /\ Entry.initial_depth \in Nat

C2_Witness ==
    /\ Loaded
    /\ Entry.tree
    /\ rendered.n > 0

\* C3 (as stated): once the module has been loaded, no step, a second load
\* of the module included, changes the entry registered under the report
\* name.
C3_AsStated ==
    [][Loaded => query_reports'[ReportName] = Entry]_vars

\* C3 (amended): once the module has been loaded, only loading the module
\* again changes the entry, and a reload leaves every field as it was except
\* the company filter's default, which becomes the user's default Company at
\* the time of the reload.
C3_ChangedOnlyByReload ==
    [][Loaded =>
         IF Len(load_log') > Loads
         THEN query_reports'[ReportName] =
                [Entry EXCEPT !.filters[1].default = get_user_default("Company")]
         ELSE query_reports'[ReportName] = Entry]_vars

C3_Witness ==
    /\ Loads >= 2
    /\ load_log[Loads - 1] # load_log[Loads]
    /\ Filters[1].default = load_log[Loads]
    /\ rendered.n = Loads

\* C4 (as stated): the company default the host sees when it renders equals
\* the user's default Company at render time.
C4_AsStated ==
    rendered.n > 0 => rendered.company_default = rendered.session_default

\* C4 (amended): the company default the host sees when it renders equals
\* the user's default Company at the time of the module load that built the
\* entry being rendered.
C4_DefaultFixedAtLoad ==
    rendered.n > 0 => rendered.company_default = load_log[rendered.n]

C4_Witness ==
    /\ rendered.n > 0
    /\ rendered.session_default # load_log[rendered.n]
    /\ rendered.company_default \in Companies

\* C5: loading the module again while it would build the same configuration
\* leaves the entry exactly as the first registration left it.
C5_Idempotent ==
    [][(Loaded /\ Len(load_log') > Loads /\ ReportConfig = Entry)
          => query_reports'[ReportName] = Entry]_vars

C5_Witness ==
    /\ Loads >= 2
    /\ load_log[Loads - 1] = load_log[Loads]
    /\ Len(Filters) = 2

\* C6: after the module is loaded every fieldname in filters is non-empty
\* and no two positions of filters share a fieldname.
C6_FieldnamesUnique ==
    Loaded =>
        /\ \A i \in DOMAIN Filters : Filters[i].fieldname # ""
        /\ \A i, j \in DOMAIN Filters :
              i # j => Filters[i].fieldname # Filters[j].fieldname

C6_Witness ==
    /\ Loaded
    /\ Cardinality({Filters[i].fieldname : i \in DOMAIN Filters}) = 2

\* C8: after the module is loaded a filter has an options attribute exactly
\* when its fieldtype is Link, and the Link filter's options is "Company".
C8_OptionsOnlyOnLink ==
    Loaded =>
        \A i \in DOMAIN Filters :
            /\ Has(Filters[i], "options") <=> Filters[i].fieldtype = "Link"
            /\ Filters[i].fieldtype = "Link" =>
                  Filters[i].options # "" /\ Filters[i].options = "Company"

C8_Witness ==
    /\ Loaded
    /\ \E i \in DOMAIN Filters : Filters[i].fieldtype = "Link"
    /\ \E i \in DOMAIN Filters :
          Filters[i].fieldtype = "Check" /\ ~Has(Filters[i], "options")

\* C9 (as stated): after the module is loaded every filter has a fieldtype
\* of Link or Check and carries a reqd attribute whose value is 0 or 1.
C9_AsStated ==
    Loaded =>
        \A i \in DOMAIN Filters :
            /\ Filters[i].fieldtype \in {"Link", "Check"}
            /\ Has(Filters[i], "reqd") /\ Filters[i].reqd \in {0, 1}

\* C9 (amended): after the module is loaded every filter has a fieldtype of
\* Link or Check, and a reqd attribute, where a filter carries one, is 0 or
\* 1; company carries reqd, show_disabled_warehouses does not.
C9_FieldTable ==
    Loaded =>
        /\ \A i \in DOMAIN Filters :
              /\ Filters[i].fieldtype \in {"Link", "Check"}
              /\ Has(Filters[i], "reqd") => Filters[i].reqd \in {0, 1}
        /\ \A i \in DOMAIN Filters :
              Has(Filters[i], "reqd") <=> Filters[i].fieldname = "company"

C9_Witness ==
    /\ Loaded
    /\ \E i \in DOMAIN Filters : ~Has(Filters[i], "reqd")
    /\ \E i \in DOMAIN Filters : Has(Filters[i], "reqd")

\* C10: a load of the module leaves every other entry of query_reports and
\* the user defaults as they were, and the entry under the report name
\* afterwards has the fields of the new configuration and no others,
\* whatever was registered there before.
C10_Frame ==
    [][Len(load_log') > Loads =>
         /\ DOMAIN query_reports' = DOMAIN query_reports \cup {ReportName}
         /\ \A n \in DOMAIN query_reports \ {ReportName} :
               query_reports'[n] = query_reports[n]
         /\ user_defaults' = user_defaults
         /\ DOMAIN query_reports'[ReportName] = ConfigKeys
         /\ Len(query_reports'[ReportName].filters) = 2
         /\ query_reports'[ReportName].filters[1].default
               = get_user_default("Company")]_vars

C10_Witness ==
    /\ Loads >= 2
    /\ OtherReports \subseteq DOMAIN query_reports
    /\ DOMAIN Entry = ConfigKeys
    /\ "Company" \in DOMAIN user_defaults

====
